---- MODULE Spec2Model ----
(***************************************************************************)
(* A model of TcpTransport (iota-transport-tcp): the listener, the         *)
(* neighbor table, the send- and receive-socket maps, the reconnection     *)
(* loop and the public operations run, shutdown, addNeighbor,              *)
(* removeNeighbor and send.  Every await of the source is a point where    *)
(* another handler may run, so an operation is a chain of actions, one per *)
(* I/O completion it waits for; everything between two awaits is one       *)
(* action.                                                                 *)
(***************************************************************************)
EXTENDS Integers, Sequences, FiniteSets, TLC

VARIABLES
  isRunning,        \* _isRunning
  server,           \* the net.Server: "closed", "binding", "listening", "closing"
  handlers,         \* _onServerConnection/_onServerClose/_onServerError are installed
  runPc,            \* where the pending run() call stands: "idle", "binding", "connecting"
  sdPc,             \* where the pending shutdown() call stands: "idle", "disconnecting", "closing"
  neighbors,        \* _neighbors, in insertion order
  needsReconnect,   \* _neighborsToReconnect
  sendSockets,      \* _sendSockets: neighbor -> outbound socket
  osock,            \* the outbound sockets this transport created
  chain,            \* the reconnection loops: "off", "armed" (timer pending), "tick" (in flight)
  timerRef,         \* _reconnectionTimer: the loop whose timer handle it holds
  reachable,        \* environment: the neighbor's listener is up for good
  params,           \* receiveUnknownNeighbor; the neighbors created with receive: false
                    \* and those created with send: false
  emitted,          \* the neighbors of the "neighbor" events emitted so far
  errors,           \* the number of "error" events emitted so far
  receiveSockets,   \* _receiveSockets: neighbor -> inbound socket
  isock,            \* the inbound TCP connections of the listener
  ret               \* the call that settled in the last step

\* the inbound side
inVars == <<receiveSockets, isock>>

\* what no operation of the transport writes, and the log of its events
envVars == <<reachable, params, emitted, errors>>

vars == <<isRunning, server, handlers, runPc, sdPc, neighbors, needsReconnect,
          sendSockets, osock, chain, timerRef, reachable, params, emitted,
          errors, receiveSockets, isock, ret>>

----------------------------------------------------------------------------
(* Bounds of the model *)

MaxOut == 2        \* outbound sockets that exist at the same time
MaxChains == 2     \* reconnection loops that exist at the same time
MaxWrites == 3     \* chunks written to one outbound socket
MaxIn == 2         \* inbound connections that exist at the same time
MaxSent == 2       \* packets a peer sends on one inbound connection
MaxErrors == 2     \* "error" events counted

(* Program constants *)

HandshakeLen == 10     \* padStart(10, '0')
Port == 4000           \* the transport's own listening port (params.port)
PacketSize == 2        \* this._packer.packetSize

Neighbor == {"n1", "n2"}     \* the TcpNeighbor objects the host creates
Synth == {"u1", "u2"}        \* the TcpNeighbor objects _receiveConnection creates
AllNb == Neighbor \cup Synth
Data == {"d1", "d2"}
OutId == 1..MaxOut
ChainId == 1..MaxChains
InId == 1..MaxIn

None == 0              \* no socket / no timer
\* the longest byte stream of one inbound connection
WireLen == HandshakeLen + MaxSent * PacketSize
NoNb == "-"

\* who awaits a _connect call: addNeighbor, run, or the tick of loop c
ByAdd == [kind |-> "add", c |-> None]
ByRun == [kind |-> "run", c |-> None]
ByTick(c) == [kind |-> "tick", c |-> c]
Nobody == [kind |-> "-", c |-> None]

----------------------------------------------------------------------------
(* Neighbor records: host, port and the two permission flags *)

(* n1 runs on this machine and is reached over the loopback address "h0"; *)
(* n2 runs on another machine, "h1".  This transport's own address on the *)
(* network is "hT".                                                        *)

\* u1 and u2 are what _receiveConnection builds from a connection of n1's,
\* respectively n2's, transport: host = socket.address().address, port = the
\* port of the handshake
NbHost(n) == CASE n = "n1" -> "h0" [] n = "n2" -> "h1" [] n = "u1" -> "h0" [] OTHER -> "hT"
NbPort(n) == IF n \in {"n1", "u1"} THEN 4010 ELSE 4020
GatewayCanSendTo(n) == n \notin params.noSend
GatewayCanReceiveFrom(n) == n \notin params.noReceive

\* TcpNeighbor.match: equality with the neighbor's host
Match(n, address) == NbHost(n) = address

\* socket.address().address of an accepted socket: the local end's address,
\* which is the address the peer dialled
SocketAddress(p) == IF NbHost(p) = "h0" THEN "h0" ELSE "hT"

----------------------------------------------------------------------------
(* Pure helpers *)

RECURSIVE DecimalString(_)
\* String(n) for a non-negative integer: its decimal digits
DecimalString(n) ==
  IF n < 10 THEN <<n>> ELSE DecimalString(n \div 10) \o <<n % 10>>

RECURSIVE PadStart(_, _, _)
\* String.prototype.padStart: pads on the left up to len, never truncates
PadStart(s, len, c) ==
  IF Len(s) >= len THEN s ELSE PadStart(<<c>> \o s, len, c)

\* the handshake packet of _connect
PortPacket(port) == PadStart(DecimalString(port), HandshakeLen, 0)

\* bytes are numbers; the ASCII digits are 0..9
IsDigit(b) == b \in 0..9

DataCode(d) == IF d = "d1" THEN 65 ELSE 66

\* Packer.pack: packetSize bytes that determine the data
Pack(d) == [i \in 1..PacketSize |-> IF i = 1 THEN DataCode(d) ELSE 32]

\* Packer.unpack: the data of a well-formed packet
Unpack(b) == IF \E d \in Data : Pack(d) = b
               THEN CHOOSE d \in Data : Pack(d) = b
               ELSE "garbled"

\* portString.length !== 10 || !/^[0-9]{10}$/.test(portString), negated
ValidPort(c) == Len(c) = HandshakeLen /\ \A i \in 1..Len(c) : IsDigit(c[i])

RECURSIVE ToNumber(_)
\* Number(portString) of a digit string
ToNumber(c) ==
  IF c = <<>> THEN 0 ELSE 10 * ToNumber(SubSeq(c, 1, Len(c) - 1)) + c[Len(c)]

Take(s, k) == SubSeq(s, 1, k)
Drop(s, k) == SubSeq(s, k + 1, Len(s))

SeqToSet(s) == {s[i] : i \in 1..Len(s)}

RECURSIVE Without(_, _)
\* Set.delete on the insertion-ordered set
Without(s, x) ==
  IF s = <<>> THEN <<>>
  ELSE IF Head(s) = x THEN Without(Tail(s), x)
  ELSE <<Head(s)>> \o Without(Tail(s), x)

RECURSIVE SetToSeq(_)
SetToSeq(S) ==
  IF S = {} THEN <<>>
  ELSE LET x == CHOOSE y \in S : TRUE IN <<x>> \o SetToSeq(S \ {x})

Min(S) == CHOOSE x \in S : \A y \in S : x <= y

----------------------------------------------------------------------------
(* Outbound sockets *)

FreeSock == [st |-> "free", nb |-> NoNb, owner |-> Nobody, awaitHs |-> FALSE,
             dw |-> {}, wr |-> <<>>]

\* new Socket + socket.connect of _connect, awaited by `owner`
NewSock(n, owner) == [st |-> "connecting", nb |-> n, owner |-> owner,
                      awaitHs |-> FALSE, dw |-> {}, wr |-> <<>>]

FreeOut(os) == {s \in OutId : os[s].st = "free"}

\* the _connect call of socket record r has not settled
Pending(r) == r.st = "connecting" \/ r.awaitHs

\* the socket of record r is an open TCP connection
Live(r) == r.st = "open"

RECURSIVE ConnectAll(_, _, _)
\* one _connect per neighbor of ns, in order
ConnectAll(os, ns, owner) ==
  IF ns = <<>> THEN os
  ELSE ConnectAll([os EXCEPT ![Min(FreeOut(os))] = NewSock(Head(ns), owner)],
                  Tail(ns), owner)

\* a closed socket's record is dropped once nothing awaits it
Retire(r) == IF r.st = "closed" /\ ~r.awaitHs THEN FreeSock ELSE r

isConnectedTo(n) == sendSockets[n] # None

Ret(op, n, res) == [op |-> op, nb |-> n, res |-> res]
NoRet == Ret("-", NoNb, "-")

----------------------------------------------------------------------------
(* _connect settles: the continuation of whoever awaits it.  os1 is osock   *)
(* after the socket's own update.  addNeighbor catches a failure into       *)
(* needsReconnect and resolves; run does the same and, when its last        *)
(* connect has settled, arms the reconnection loop and sets _isRunning; a   *)
(* tick deletes the neighbor on success and, when its last connect has      *)
(* settled, arms the next timer.                                            *)

NeedsAfterSettle(o, n, ok) ==
  IF o.kind = "tick"
    THEN (IF ok THEN needsReconnect \ {n} ELSE needsReconnect)
    ELSE (IF ok THEN needsReconnect ELSE needsReconnect \cup {n})

\* a loop that dies after its first tick
RearmNever(ch, c) == [ch EXCEPT ![c] = "off"]

\* this._reconnectionTimer = setTimeout(reconnect, ...) at the end of a tick
Rearm(ch, c) == [ch EXCEPT ![c] = "armed"]

Settle(s, ok, os1) ==
  LET o == osock[s].owner
      n == osock[s].nb
      others == \E t \in OutId \ {s} : os1[t].owner = o /\ Pending(os1[t])
      runDone == o.kind = "run" /\ ~others
      tickDone == o.kind = "tick" /\ ~others
      fresh == CHOOSE c \in ChainId : chain[c] = "off"
  IN /\ needsReconnect' = NeedsAfterSettle(o, n, ok)
     /\ isRunning' = (IF runDone THEN TRUE ELSE isRunning)
     /\ runPc' = (IF runDone THEN "idle" ELSE runPc)
     /\ chain' = (IF runDone THEN [chain EXCEPT ![fresh] = "armed"]
                  ELSE IF tickDone THEN Rearm(chain, o.c)
                  ELSE chain)
     /\ timerRef' = (IF runDone THEN fresh ELSE IF tickDone THEN o.c ELSE timerRef)
     /\ ret' = (IF o.kind = "add"
                  THEN Ret("addNeighbor", n, IF ok THEN "connected" ELSE "connectFailed")
                ELSE IF runDone THEN Ret("run", NoNb, "ok")
                ELSE NoRet)

\* a _connect that resolves without writing the port
NoHandshake == <<>>

\* what the connect handler and the code after the await write first
FirstWrites == <<PortPacket(Port)>>

\* the socket's "connect" event: _initSendSocket registers it, _connect writes
\* the handshake and awaits the write
ConnectOk(s) ==
  /\ osock[s].st = "connecting"
  /\ osock' = [osock EXCEPT ![s].st = "open", ![s].awaitHs = TRUE, ![s].wr = FirstWrites]
  /\ sendSockets' = [sendSockets EXCEPT ![osock[s].nb] = s]
  /\ ret' = NoRet
  /\ UNCHANGED <<isRunning, server, handlers, runPc, sdPc, neighbors, needsReconnect,
                 chain, timerRef, envVars, inVars>>

\* the socket's "error" event before it connected (never once the neighbor's
\* listener is up for good): _connect rejects
ConnectFail(s) ==
  /\ osock[s].st = "connecting"
  /\ ~reachable[osock[s].nb]
  /\ LET os1 == [osock EXCEPT ![s] = FreeSock]
     IN /\ osock' = os1
        /\ Settle(s, FALSE, os1)
  /\ UNCHANGED <<server, handlers, sdPc, neighbors, sendSockets, envVars, inVars>>

\* the handshake write's callback: _connect resolves
HandshakeFlushed(s) ==
  /\ osock[s].awaitHs
  /\ LET os1 == [osock EXCEPT ![s] = Retire([@ EXCEPT !.awaitHs = FALSE, !.owner = Nobody])]
     IN /\ osock' = os1
        /\ Settle(s, TRUE, os1)
  /\ UNCHANGED <<server, handlers, sdPc, neighbors, sendSockets, envVars, inVars>>

\* socket.destroy() of _disconnect, awaited by w ("sd": shutdown, "rm": removeNeighbor)
Destroyed(r, w) == [r EXCEPT !.st = "closing", !.dw = @ \cup {w}]

\* Map.delete by key
MapDelete(m, n) == [m EXCEPT ![n] = None]

\* a send socket's "close" event (the peer closed it, or this side destroyed
\* it): the handler of _initSendSocket deletes the neighbor's entry; every
\* _disconnect awaiting the close resumes: it deletes the entry, and then
\* removeNeighbor drops the neighbor, and shutdown, once all its
\* disconnects are through, closes the listener
SocketClosed(s) ==
  LET r == osock[s]
      n == r.nb
      os1 == [osock EXCEPT ![s] = Retire([r EXCEPT !.st = "closed", !.dw = {}])]
      sdDone == "sd" \in r.dw /\ ~\E t \in OutId \ {s} : "sd" \in osock[t].dw
  IN /\ r.st \in {"open", "closing"}
     /\ osock' = os1
     /\ sendSockets' = MapDelete(sendSockets, n)
     /\ IF "rm" \in r.dw
          THEN /\ needsReconnect' = needsReconnect \ {n}
               /\ neighbors' = Without(neighbors, n)
               /\ ret' = Ret("removeNeighbor", n, "ok")
          ELSE /\ ret' = NoRet
               /\ UNCHANGED <<needsReconnect, neighbors>>
     /\ IF sdDone
          THEN /\ sdPc' = "closing"
               /\ server' = "closing"
          ELSE UNCHANGED <<sdPc, server>>
     /\ UNCHANGED <<isRunning, handlers, runPc, chain, timerRef, envVars, inVars>>

\* a _disconnect that rejects at the socket's "error" event, as
\* _disconnectNeighbor did at first: removeNeighbor and shutdown reject with
\* the error and nothing is deleted
SocketErrorRejects(s) ==
  LET r == osock[s]
  IN /\ r.st = "closing"
     /\ r.dw # {}
     /\ errors < MaxErrors
     /\ errors' = errors + 1
     /\ osock' = [osock EXCEPT ![s].dw = {}]
     /\ ret' = Ret(IF "rm" \in r.dw THEN "removeNeighbor" ELSE "shutdown", r.nb,
                   "SocketError")
     /\ sdPc' = IF "sd" \in r.dw THEN "idle" ELSE sdPc
     /\ UNCHANGED <<isRunning, server, handlers, runPc, neighbors, needsReconnect,
                    sendSockets, chain, timerRef, reachable, params, emitted, inVars>>

\* the "error" event of a send socket that is being destroyed: the handler
\* of _initSendSocket emits "error"; every _disconnect awaiting the socket
\* removes its listeners and resolves: it deletes the neighbor's entry, and
\* then removeNeighbor drops the neighbor, and shutdown, once all its
\* disconnects are through, closes the listener.  The socket's "close"
\* event is still to come
SocketError(s) ==
  LET r == osock[s]
      n == r.nb
      sdDone == "sd" \in r.dw /\ ~\E t \in OutId \ {s} : "sd" \in osock[t].dw
  IN /\ r.st = "closing"
     /\ r.dw # {}
     /\ errors < MaxErrors
     /\ errors' = errors + 1
     /\ osock' = [osock EXCEPT ![s].dw = {}]
     /\ sendSockets' = MapDelete(sendSockets, n)
     /\ IF "rm" \in r.dw
          THEN /\ needsReconnect' = needsReconnect \ {n}
               /\ neighbors' = Without(neighbors, n)
               /\ ret' = Ret("removeNeighbor", n, "ok")
          ELSE /\ ret' = NoRet
               /\ UNCHANGED <<needsReconnect, neighbors>>
     /\ IF sdDone
          THEN /\ sdPc' = "closing"
               /\ server' = "closing"
          ELSE UNCHANGED <<sdPc, server>>
     /\ UNCHANGED <<isRunning, handlers, runPc, chain, timerRef, reachable, params,
                    emitted, inVars>>

----------------------------------------------------------------------------
(* Public operations *)

\* an addNeighbor that starts the connect and does not await it
AddNeighborNoAwait(n) ==
  /\ n \notin SeqToSet(neighbors)
  /\ neighbors' = Append(neighbors, n)
  /\ IF isRunning
       THEN /\ FreeOut(osock) # {}
            /\ osock' = ConnectAll(osock, <<n>>, Nobody)
            /\ ret' = Ret("addNeighbor", n, "connected")
       ELSE /\ ret' = Ret("addNeighbor", n, "notRunning")
            /\ UNCHANGED osock
  /\ UNCHANGED <<isRunning, server, handlers, runPc, sdPc, needsReconnect,
                 sendSockets, chain, timerRef, envVars, inVars>>

AddNeighbor(n) ==
  /\ n \notin SeqToSet(neighbors)
  /\ neighbors' = Append(neighbors, n)
  /\ IF isRunning
       THEN /\ FreeOut(osock) # {}
            /\ osock' = ConnectAll(osock, <<n>>, ByAdd)
            /\ ret' = NoRet
       ELSE /\ ret' = Ret("addNeighbor", n, "notRunning")
            /\ UNCHANGED osock
  /\ UNCHANGED <<isRunning, server, handlers, runPc, sdPc, needsReconnect,
                 sendSockets, chain, timerRef, envVars, inVars>>

\* an addNeighbor that does not look at the table
AddNeighborTwice(n) ==
  /\ n \in SeqToSet(neighbors)
  /\ neighbors' = Append(neighbors, n)
  /\ ret' = Ret("addNeighbor", n, "notRunning")
  /\ UNCHANGED <<isRunning, server, handlers, runPc, sdPc, needsReconnect,
                 sendSockets, osock, chain, timerRef, envVars, inVars>>

AddNeighborRejects(n) ==
  /\ n \in SeqToSet(neighbors)
  /\ ret' = Ret("addNeighbor", n, "AlreadyExists")
  /\ UNCHANGED <<isRunning, server, handlers, runPc, sdPc, neighbors, needsReconnect,
                 sendSockets, osock, chain, timerRef, envVars, inVars>>

\* the receive socket is destroyed and its entry deleted at once; a send
\* socket is destroyed and its "close" awaited before the neighbor is dropped
RemoveNeighbor(n) ==
  /\ n \in SeqToSet(neighbors)
  /\ IF receiveSockets[n] # None
       THEN /\ isock' = [isock EXCEPT ![receiveSockets[n]].st = "closing",
                                      ![receiveSockets[n]].wire = <<>>]
            /\ receiveSockets' = MapDelete(receiveSockets, n)
       ELSE UNCHANGED <<isock, receiveSockets>>
  /\ IF sendSockets[n] # None
       THEN /\ osock' = [osock EXCEPT ![sendSockets[n]] = Destroyed(@, "rm")]
            /\ ret' = NoRet
            /\ UNCHANGED <<needsReconnect, neighbors>>
       ELSE /\ needsReconnect' = needsReconnect \ {n}
            /\ neighbors' = Without(neighbors, n)
            /\ ret' = Ret("removeNeighbor", n, "ok")
            /\ UNCHANGED osock
  /\ UNCHANGED <<isRunning, server, handlers, runPc, sdPc, sendSockets, chain,
                 timerRef, envVars>>

\* a removeNeighbor that does not look at the table
RemoveNeighborAnyway(n) ==
  /\ n \notin SeqToSet(neighbors)
  /\ needsReconnect' = needsReconnect \ {n}
  /\ sendSockets' = MapDelete(sendSockets, n)
  /\ ret' = Ret("removeNeighbor", n, "ok")
  /\ UNCHANGED <<isRunning, server, handlers, runPc, sdPc, neighbors, osock, chain,
                 timerRef, envVars, inVars>>

RemoveNeighborRejects(n) ==
  /\ n \notin SeqToSet(neighbors)
  /\ ret' = Ret("removeNeighbor", n, "NotFound")
  /\ UNCHANGED <<isRunning, server, handlers, runPc, sdPc, neighbors, needsReconnect,
                 sendSockets, osock, chain, timerRef, envVars, inVars>>

\* run() up to its first await: server.listen
RunStart ==
  /\ ~isRunning
  /\ runPc = "idle"
  /\ \E c \in ChainId : chain[c] = "off"
  /\ runPc' = "binding"
  /\ server' = "binding"
  /\ ret' = NoRet
  /\ UNCHANGED <<isRunning, handlers, sdPc, neighbors, needsReconnect, sendSockets,
                 osock, chain, timerRef, envVars, inVars>>

\* a run that does not look at _isRunning and arms the reconnection again
RunAgain ==
  /\ isRunning
  /\ \E c \in ChainId : chain[c] = "off"
  /\ LET fresh == CHOOSE c \in ChainId : chain[c] = "off"
     IN /\ chain' = [chain EXCEPT ![fresh] = "armed"]
        /\ timerRef' = fresh
  /\ ret' = Ret("run", NoNb, "ok")
  /\ UNCHANGED <<isRunning, server, handlers, runPc, sdPc, neighbors, needsReconnect,
                 sendSockets, osock, envVars, inVars>>

RunRejects ==
  /\ isRunning
  /\ ret' = Ret("run", NoNb, "AlreadyRunning")
  /\ UNCHANGED <<isRunning, server, handlers, runPc, sdPc, neighbors, needsReconnect,
                 sendSockets, osock, chain, timerRef, envVars, inVars>>

\* the listener's "listening" event: _initServerListeners, then one _connect
\* per neighbor; with no neighbor run goes on to its end
RunListening ==
  LET fresh == CHOOSE c \in ChainId : chain[c] = "off"
  IN /\ runPc = "binding"
     /\ Cardinality(FreeOut(osock)) >= Len(neighbors)
     /\ server' = "listening"
     /\ handlers' = TRUE
     /\ osock' = ConnectAll(osock, neighbors, ByRun)
     /\ IF neighbors = <<>>
          THEN /\ chain' = [chain EXCEPT ![fresh] = "armed"]
               /\ timerRef' = fresh
               /\ isRunning' = TRUE
               /\ runPc' = "idle"
               /\ ret' = Ret("run", NoNb, "ok")
          ELSE /\ runPc' = "connecting"
               /\ ret' = NoRet
               /\ UNCHANGED <<chain, timerRef, isRunning>>
     /\ UNCHANGED <<sdPc, neighbors, needsReconnect, sendSockets, envVars, inVars>>

\* a run that rejects with the listen error after having installed the
\* listener's handlers and started its connects
RunListenFailsLate ==
  /\ runPc = "binding"
  /\ Cardinality(FreeOut(osock)) >= Len(neighbors)
  /\ server' = "closed"
  /\ handlers' = TRUE
  /\ osock' = ConnectAll(osock, neighbors, ByAdd)
  /\ runPc' = "idle"
  /\ ret' = Ret("run", NoNb, "ListenFailed")
  /\ UNCHANGED <<isRunning, sdPc, neighbors, needsReconnect, sendSockets,
                 chain, timerRef, envVars, inVars>>

\* the listener's "error" event while binding: run rejects
RunListenFails ==
  /\ runPc = "binding"
  /\ server' = "closed"
  /\ runPc' = "idle"
  /\ ret' = Ret("run", NoNb, "ListenFailed")
  /\ UNCHANGED <<isRunning, handlers, sdPc, neighbors, needsReconnect, sendSockets,
                 osock, chain, timerRef, envVars, inVars>>

RECURSIVE DisconnectAll(_, _)
\* one _disconnect per key of _sendSockets
DisconnectAll(os, ns) ==
  IF ns = {} THEN os
  ELSE LET n == CHOOSE x \in ns : TRUE
       IN DisconnectAll([os EXCEPT ![sendSockets[n]] = Destroyed(@, "sd")], ns \ {n})

\* shutdown() up to its first await: the listener's handlers are detached and
\* every send socket is destroyed; with no send socket it goes on to
\* server.close()
ShutdownStart ==
  LET keys == {n \in AllNb : sendSockets[n] # None}
  IN /\ isRunning
     /\ handlers
     /\ handlers' = FALSE
     /\ osock' = DisconnectAll(osock, keys)
     /\ IF keys = {}
          THEN sdPc' = "closing" /\ server' = "closing"
          ELSE sdPc' = "disconnecting" /\ UNCHANGED server
     /\ ret' = NoRet
     /\ UNCHANGED <<isRunning, runPc, neighbors, needsReconnect, sendSockets, chain,
                    timerRef, envVars, inVars>>

\* the listener's "close" event on a running transport whose shutdown() was
\* not called (every connection of the listener has ended): the onClose
\* handler of _initServerListeners calls shutdown(), which runs up to its
\* first await as in ShutdownStart; its server.close() finds the listener
\* closed already
ListenerClosed ==
  LET keys == {n \in AllNb : sendSockets[n] # None}
  IN /\ isRunning
     /\ handlers
     /\ sdPc = "idle"
     /\ server = "listening"
     /\ \A s \in InId : isock[s].st = "free"
     /\ handlers' = FALSE
     /\ osock' = DisconnectAll(osock, keys)
     /\ server' = "closing"
     /\ sdPc' = (IF keys = {} THEN "closing" ELSE "disconnecting")
     /\ ret' = NoRet
     /\ UNCHANGED <<isRunning, runPc, neighbors, needsReconnect, sendSockets, chain,
                    timerRef, envVars, inVars>>

\* the listener's "error" event while the handlers of _initServerListeners
\* are installed: it is emitted as an "error" event of the transport
ListenerError ==
  /\ handlers
  /\ server = "listening"
  /\ errors < MaxErrors
  /\ errors' = errors + 1
  /\ ret' = NoRet
  /\ UNCHANGED <<isRunning, server, handlers, runPc, sdPc, neighbors, needsReconnect,
                 sendSockets, osock, chain, timerRef, reachable, params, emitted,
                 inVars>>

\* clearTimeout(_reconnectionTimer): a timer that has not fired is cancelled
ClearTimeout(ch, ref) ==
  IF ref # None /\ ch[ref] = "armed" THEN [ch EXCEPT ![ref] = "off"] ELSE ch

\* a shutdown that does not look at _isRunning and disarms the reconnection
ShutdownAnyway ==
  /\ ~isRunning
  /\ chain' = ClearTimeout(chain, timerRef)
  /\ timerRef' = None
  /\ needsReconnect' = {}
  /\ ret' = Ret("shutdown", NoNb, "ok")
  /\ UNCHANGED <<isRunning, server, handlers, runPc, sdPc, neighbors, sendSockets,
                 osock, envVars, inVars>>

ShutdownRejects ==
  /\ ~isRunning
  /\ ret' = Ret("shutdown", NoNb, "NotRunning")
  /\ UNCHANGED <<isRunning, server, handlers, runPc, sdPc, neighbors, needsReconnect,
                 sendSockets, osock, chain, timerRef, envVars, inVars>>

\* shutdown() while the handlers are already detached: removeListener(.., null) throws
ShutdownThrows ==
  /\ isRunning
  /\ ~handlers
  /\ ret' = Ret("shutdown", NoNb, "TypeError")
  /\ UNCHANGED <<isRunning, server, handlers, runPc, sdPc, neighbors, needsReconnect,
                 sendSockets, osock, chain, timerRef, envVars, inVars>>

\* a shutdown that resolves and leaves _isRunning set
ShutdownKeepsRunning ==
  /\ sdPc = "closing"
  /\ server = "closing"
  /\ \A s \in InId : isock[s].st = "free"
  /\ server' = "closed"
  /\ chain' = ClearTimeout(chain, timerRef)
  /\ timerRef' = None
  /\ needsReconnect' = {}
  /\ sdPc' = "idle"
  /\ ret' = Ret("shutdown", NoNb, "ok")
  /\ UNCHANGED <<isRunning, handlers, runPc, neighbors, sendSockets, osock, envVars,
                 inVars>>

\* a shutdown that resolves and leaves the listener accepting
ShutdownKeepsListening ==
  /\ sdPc = "closing"
  /\ server = "closing"
  /\ \A s \in InId : isock[s].st = "free"
  /\ server' = "listening"
  /\ chain' = ClearTimeout(chain, timerRef)
  /\ timerRef' = None
  /\ needsReconnect' = {}
  /\ isRunning' = FALSE
  /\ sdPc' = "idle"
  /\ ret' = Ret("shutdown", NoNb, "ok")
  /\ UNCHANGED <<handlers, runPc, neighbors, sendSockets, osock, envVars, inVars>>

\* the listener's "close" event, once every inbound connection has ended:
\* shutdown disarms the reconnection and resolves
ShutdownClosed ==
  /\ sdPc = "closing"
  /\ server = "closing"
  /\ \A s \in InId : isock[s].st = "free"
  /\ server' = "closed"
  /\ chain' = ClearTimeout(chain, timerRef)
  /\ timerRef' = None
  /\ needsReconnect' = {}
  /\ isRunning' = FALSE
  /\ sdPc' = "idle"
  /\ ret' = Ret("shutdown", NoNb, "ok")
  /\ UNCHANGED <<handlers, runPc, neighbors, sendSockets, osock, envVars, inVars>>

\* the reconnection timer of loop c fires: one _connect per neighbor to
\* reconnect; with none, the next timer is armed at once
TimerFires(c) ==
  /\ chain[c] = "armed"
  /\ Cardinality(FreeOut(osock)) >= Cardinality(needsReconnect)
  /\ osock' = ConnectAll(osock, SetToSeq(needsReconnect), ByTick(c))
  /\ chain' = (IF needsReconnect = {} THEN Rearm(chain, c)
               ELSE [chain EXCEPT ![c] = "tick"])
  /\ timerRef' = (IF needsReconnect = {} THEN c ELSE timerRef)
  /\ ret' = NoRet
  /\ UNCHANGED <<isRunning, server, handlers, runPc, sdPc, neighbors, needsReconnect,
                 sendSockets, envVars, inVars>>

\* a send whose packet is written ahead of the packets queued before it
SendJumpsQueue(n, d) ==
  /\ GatewayCanSendTo(n)
  /\ sendSockets[n] # None
  /\ LET s == sendSockets[n]
     IN IF osock[s].st = "open"
          THEN /\ Len(osock[s].wr) < MaxWrites
               /\ osock' = [osock EXCEPT ![s].wr = <<Head(@), Pack(d)>> \o Tail(@)]
          ELSE UNCHANGED osock
  /\ ret' = Ret("send", n, "ok")
  /\ UNCHANGED <<isRunning, server, handlers, runPc, sdPc, neighbors, needsReconnect,
                 sendSockets, chain, timerRef, envVars, inVars>>


Send(n, d) ==
  /\ GatewayCanSendTo(n)
  /\ sendSockets[n] # None
  /\ LET s == sendSockets[n]
     IN IF osock[s].st = "open"
          THEN /\ Len(osock[s].wr) < MaxWrites
               /\ osock' = [osock EXCEPT ![s].wr = Append(@, Pack(d))]
          ELSE UNCHANGED osock
  /\ ret' = Ret("send", n, "ok")
  /\ UNCHANGED <<isRunning, server, handlers, runPc, sdPc, neighbors, needsReconnect,
                 sendSockets, chain, timerRef, envVars, inVars>>

\* a send that resolves although the neighbor has no send socket
SendIgnoresMissing(n) ==
  /\ ~GatewayCanSendTo(n) \/ sendSockets[n] = None
  /\ ret' = Ret("send", n, "ok")
  /\ UNCHANGED <<isRunning, server, handlers, runPc, sdPc, neighbors, needsReconnect,
                 sendSockets, osock, chain, timerRef, envVars, inVars>>

\* a send that looks for the socket only, as TcpTransport.send did before
\* the permission check was added
SendUnchecked(n) ==
  /\ ~GatewayCanSendTo(n) \/ sendSockets[n] = None
  /\ IF sendSockets[n] = None
       THEN /\ ret' = Ret("send", n, "NotConnected")
            /\ UNCHANGED osock
       ELSE /\ ret' = Ret("send", n, "ok")
            /\ LET s == sendSockets[n]
               IN IF osock[s].st = "open" /\ Len(osock[s].wr) < MaxWrites
                    THEN osock' = [osock EXCEPT ![s].wr = Append(@, Pack("d1"))]
                    ELSE UNCHANGED osock
  /\ UNCHANGED <<isRunning, server, handlers, runPc, sdPc, neighbors, needsReconnect,
                 sendSockets, chain, timerRef, envVars, inVars>>

SendRejects(n) ==
  /\ ~GatewayCanSendTo(n) \/ sendSockets[n] = None
  /\ ret' = Ret("send", n, IF ~GatewayCanSendTo(n) THEN "SendForbidden" ELSE "NotConnected")
  /\ UNCHANGED <<isRunning, server, handlers, runPc, sdPc, neighbors, needsReconnect,
                 sendSockets, osock, chain, timerRef, envVars, inVars>>

----------------------------------------------------------------------------
(* Inbound connections.  A peer is a transport of the same program: what   *)
(* it writes is what _connect and send write.                              *)

FreeIn == [st |-> "free", peer |-> NoNb, nb |-> NoNb, wire |-> <<>>, buf |-> <<>>,
           sent |-> <<>>, rcvd |-> <<>>, hs |-> <<>>, timer |-> FALSE,
           out |-> <<>>]

\* a removeListeners that leaves the handshake timer pending
RemoveListenersKeepsTimer(r) == r

\* removeListeners of _receiveConnection: the handshake timer is cleared
RemoveListeners(r) == [r EXCEPT !.timer = FALSE]

\* getNeighbor's loop: the first neighbor of the table, in insertion order,
\* that matches
RECURSIVE FirstMatch(_, _)
FirstMatch(ns, address) ==
  IF ns = <<>> THEN NoNb
  ELSE IF Match(Head(ns), address) THEN Head(ns)
  ELSE FirstMatch(Tail(ns), address)

\* Set.has on the insertion-ordered set
InTableOf(ns, n) == n \in SeqToSet(ns)

RECURSIVE Blocks(_)
\* BlockStream: the full blocks of the buffered bytes, in order
Blocks(b) ==
  IF Len(b) < PacketSize THEN <<>>
  ELSE <<Take(b, PacketSize)>> \o Blocks(Drop(b, PacketSize))

\* BlockStream: the bytes kept for the next block
Rest(b) == Drop(b, (Len(b) \div PacketSize) * PacketSize)

\* the NUL byte (0..9 stand for the ASCII digits here)
Nul == 255

RECURSIVE PadEnd(_)
\* BlockStream.end() without the nopad option: a block that is not full is
\* filled up with NUL bytes
PadEnd(b) == IF Len(b) >= PacketSize THEN b ELSE PadEnd(Append(b, Nul))

\* the "receive" events of _initReceiveSocket's data handler, one per block
Receives(bs, n, address) ==
  [i \in 1..Len(bs) |-> [data |-> Unpack(bs[i]), nb |-> n, address |-> address,
                         block |-> bs[i]]]

\* a peer transport's _connect reaches the listener: with the "connection"
\* handler installed _receiveConnection waits for the first data; without it
\* nobody reads the socket
InboundConnect(p) ==
  /\ server = "listening"
  /\ \E s \in InId : isock[s].st = "free"
  /\ LET s == Min({x \in InId : isock[x].st = "free"})
     IN isock' = [isock EXCEPT ![s] =
          [FreeIn EXCEPT !.st = (IF handlers THEN "hsWait" ELSE "ignored"),
                         !.timer = handlers,
                         !.peer = p,
                         !.wire = PortPacket(NbPort(p))]]
  /\ ret' = NoRet
  /\ UNCHANGED <<isRunning, server, handlers, runPc, sdPc, neighbors, needsReconnect,
                 sendSockets, osock, chain, timerRef, envVars, receiveSockets>>

\* the same while the listener has no other connection
InboundAlone(p) ==
  /\ \A s \in InId : isock[s].st = "free"
  /\ InboundConnect(p)

\* the peer's send(): one packet written to its send socket
PeerSend(s, d) ==
  /\ isock[s].st \in {"hsWait", "recv", "ignored"}
  /\ Len(isock[s].sent) < MaxSent
  /\ isock' = [isock EXCEPT ![s].wire = @ \o Pack(d), ![s].sent = Append(@, d),
                           ![s].out = @ \o Pack(d)]
  /\ ret' = NoRet
  /\ UNCHANGED <<isRunning, server, handlers, runPc, sdPc, neighbors, needsReconnect,
                 sendSockets, osock, chain, timerRef, envVars, receiveSockets>>

\* a peer that is not a transport writes one byte after its handshake
PeerWrite(s) ==
  /\ isock[s].st \in {"hsWait", "recv", "ignored"}
  /\ Len(isock[s].out) < MaxSent * PacketSize
  /\ isock' = [isock EXCEPT ![s].wire = Append(@, 65), ![s].out = Append(@, 65)]
  /\ ret' = NoRet
  /\ UNCHANGED <<isRunning, server, handlers, runPc, sdPc, neighbors, needsReconnect,
                 sendSockets, osock, chain, timerRef, envVars, receiveSockets>>

\* new TcpNeighbor({ host: address, port: remotePort })
SynthFor(address, port) ==
  CHOOSE u \in Synth : NbHost(u) = address /\ NbPort(u) = port

\* the neighbor a connection with a valid handshake is bound to: the first
\* one of the table that matches the socket's address, else a new one when
\* receiveUnknownNeighbor is set, else none
Identify(ns, address, port) ==
  IF FirstMatch(ns, address) # NoNb THEN FirstMatch(ns, address)
  ELSE IF params.receiveUnknownNeighbor THEN SynthFor(address, port)
  ELSE NoNb

\* a check that lets every neighbor through
RefusedNever(n) == FALSE

\* if (!neighbor.gatewayCanReceiveFrom)
Refused(n) == ~GatewayCanReceiveFrom(n)

\* the first "data" event of an accepted socket, carrying the next k bytes:
\* the handshake.  An invalid one rejects the promise nobody handles and the
\* socket stays open with no listener.  After a valid one the neighbor is
\* looked up by the socket's address; an unknown one is destroyed, or, with
\* receiveUnknownNeighbor, created, added by addNeighbor (which connects to
\* it on a running transport) and announced by a "neighbor" event; a
\* neighbor that may not be received from is destroyed, any other is
\* registered by _initReceiveSocket
FirstData(s, k) ==
  LET r == isock[s]
      c == Take(r.wire, k)
      address == SocketAddress(r.peer)
      n == Identify(neighbors, address, ToNumber(c))
      new == n # NoNb /\ ~InTableOf(neighbors, n)
  IN /\ r.st = "hsWait"
     /\ k \in 1..Len(r.wire)
     /\ IF ~ValidPort(c)
          THEN /\ isock' = [isock EXCEPT ![s] =
                          [RemoveListeners(r) EXCEPT !.st = "ignored",
                                                     !.wire = Drop(@, k), !.hs = c]]
               /\ ret' = NoRet
               /\ UNCHANGED <<receiveSockets, neighbors, osock, emitted>>
          ELSE /\ IF new
                    THEN /\ neighbors' = Append(neighbors, n)
                         /\ emitted' = Append(emitted, n)
                         /\ IF isRunning
                              THEN /\ FreeOut(osock) # {}
                                   /\ osock' = ConnectAll(osock, <<n>>, ByAdd)
                                   /\ ret' = NoRet
                              ELSE /\ ret' = Ret("addNeighbor", n, "notRunning")
                                   /\ UNCHANGED osock
                    ELSE /\ ret' = NoRet
                         /\ UNCHANGED <<neighbors, osock, emitted>>
               /\ IF n = NoNb \/ Refused(n)
                    THEN /\ isock' = [isock EXCEPT ![s] =
                                [FreeIn EXCEPT !.st = "dropped", !.peer = r.peer,
                                               !.nb = n, !.hs = c]]
                         /\ UNCHANGED receiveSockets
                    ELSE /\ isock' = [isock EXCEPT ![s] =
                                [RemoveListeners(r) EXCEPT !.st = "recv", !.nb = n,
                                                           !.wire = Drop(@, k), !.hs = c]]
                         /\ receiveSockets' = [receiveSockets EXCEPT ![n] = s]
     /\ UNCHANGED <<isRunning, server, handlers, runPc, sdPc, needsReconnect,
                    sendSockets, chain, timerRef, reachable, params, errors>>

\* a later "data" event carrying the next k bytes: piped into the BlockStream,
\* whose blocks are unpacked and emitted; a socket without listener drops them
DataRead(s, k) ==
  LET r == isock[s]
      b == r.buf \o Take(r.wire, k)
  IN /\ r.st \in {"recv", "ignored"}
     /\ k \in 1..Len(r.wire)
     /\ IF r.st = "recv"
          THEN isock' = [isock EXCEPT
                 ![s].wire = Drop(@, k),
                 ![s].buf = Rest(b),
                 ![s].rcvd = @ \o Receives(Blocks(b), r.nb, SocketAddress(r.peer))]
          ELSE isock' = [isock EXCEPT ![s].wire = Drop(@, k)]
     /\ ret' = NoRet
     /\ UNCHANGED <<isRunning, server, handlers, runPc, sdPc, neighbors, needsReconnect,
                    sendSockets, osock, chain, timerRef, envVars, receiveSockets>>

\* the peer ends a registered connection whose bytes have all been read: the
\* socket's "end" event.  The pipe of _initReceiveSocket then ends the
\* BlockStream, which pads what it has buffered to a block and emits it to
\* the data handler; the socket's "close" event follows
PeerEnd(s) ==
  LET r == isock[s] IN
    /\ r.st = "recv"
    /\ r.wire = <<>>
    /\ isock' = [isock EXCEPT
         ![s].st = "ended",
         ![s].buf = <<>>,
         ![s].rcvd = IF r.buf = <<>> THEN @
                     ELSE @ \o Receives(<<PadEnd(r.buf)>>, r.nb, SocketAddress(r.peer))]
    /\ ret' = NoRet
    /\ UNCHANGED <<isRunning, server, handlers, runPc, sdPc, neighbors, needsReconnect,
                   sendSockets, osock, chain, timerRef, envVars, receiveSockets>>

\* the 10 s timer of _receiveConnection, unless cleared: the socket is
\* destroyed
HandshakeTimeout(s) ==
  /\ isock[s].timer
  /\ isock' = [isock EXCEPT ![s] =
       [FreeIn EXCEPT !.st = "dropped", !.peer = isock[s].peer]]
  /\ ret' = NoRet
  /\ UNCHANGED <<isRunning, server, handlers, runPc, sdPc, neighbors, needsReconnect,
                 sendSockets, osock, chain, timerRef, envVars, receiveSockets>>

\* an inbound socket's "close" event (the peer closed it, or this side
\* destroyed it): the handler of _initReceiveSocket, where it is installed,
\* deletes the neighbor's entry
InboundClosed(s) ==
  /\ isock[s].st \in {"hsWait", "recv", "ignored", "closing", "dropped", "ended"}
  /\ isock' = [isock EXCEPT ![s] = FreeIn]
  /\ receiveSockets' = (IF isock[s].st \in {"recv", "closing", "ended"}
                          THEN MapDelete(receiveSockets, isock[s].nb)
                          ELSE receiveSockets)
  /\ ret' = NoRet
  /\ UNCHANGED <<isRunning, server, handlers, runPc, sdPc, neighbors, needsReconnect,
                 sendSockets, osock, chain, timerRef, envVars>>

----------------------------------------------------------------------------
(* The environment: a neighbor's listener comes up and stays up *)

PeerUp(n) ==
  /\ ~reachable[n]
  /\ reachable' = [reachable EXCEPT ![n] = TRUE]
  /\ ret' = NoRet
  /\ UNCHANGED <<isRunning, server, handlers, runPc, sdPc, neighbors, needsReconnect,
                 sendSockets, osock, chain, timerRef, params, emitted, errors,
                 inVars>>

----------------------------------------------------------------------------
\* the state after construction, for the constructor's receiveUnknownNeighbor
\* and the neighbors' receive and send flags p
Constructed(p) ==
  /\ isRunning = FALSE
  /\ server = "closed"
  /\ handlers = FALSE
  /\ runPc = "idle"
  /\ sdPc = "idle"
  /\ neighbors = <<>>
  /\ needsReconnect = {}
  /\ sendSockets = [n \in AllNb |-> None]
  /\ osock = [s \in OutId |-> FreeSock]
  /\ chain = [c \in ChainId |-> "off"]
  /\ timerRef = None
  /\ reachable = [n \in AllNb |-> FALSE]
  /\ params = p
  /\ emitted = <<>>
  /\ errors = 0
  /\ receiveSockets = [n \in AllNb |-> None]
  /\ isock = [s \in InId |-> FreeIn]
  /\ ret = NoRet

\* receiveUnknownNeighbor is false by default and neighbors may be received
\* from by default
Init == Constructed([receiveUnknownNeighbor |-> FALSE, noReceive |-> {}, noSend |-> {}])

\* every configuration
InitAny ==
  \E p \in [receiveUnknownNeighbor : BOOLEAN, noReceive : SUBSET {"n1"},
            noSend : {{}}] :
    Constructed(p)

\* the default transport whose neighbor n1 may or may not be sent to
InitSend ==
  \E p \in [receiveUnknownNeighbor : {FALSE}, noReceive : {{}},
            noSend : SUBSET {"n1"}] :
    Constructed(p)


\* the calls that reject without touching the state
Rejections ==
  \/ \E n \in Neighbor : AddNeighborRejects(n)
  \/ \E n \in Neighbor : RemoveNeighborRejects(n)
  \/ RunRejects
  \/ ShutdownRejects
  \/ ShutdownThrows
  \/ \E n \in Neighbor : SendRejects(n)

\* the transport's operations and the events of its outbound sockets
Next ==
  \/ \E n \in Neighbor : AddNeighbor(n)
  \/ \E n \in Neighbor : RemoveNeighbor(n)
  \/ RunStart
  \/ RunListening
  \/ RunListenFails
  \/ ShutdownStart
  \/ ShutdownClosed
  \/ \E c \in ChainId : TimerFires(c)
  \/ \E s \in OutId : ConnectOk(s)
  \/ \E s \in OutId : ConnectFail(s)
  \/ \E s \in OutId : HandshakeFlushed(s)
  \/ \E s \in OutId : SocketClosed(s)

Spec == Init /\ [][Next]_vars

\* the operations, their rejections included
CallSpec == Init /\ [][Next \/ Rejections]_vars

\* the lifecycle together with send
NextSend ==
  \/ \E n \in Neighbor : AddNeighbor(n)
  \/ \E n \in Neighbor : RemoveNeighbor(n)
  \/ RunStart
  \/ RunListening
  \/ RunListenFails
  \/ \E c \in ChainId : TimerFires(c)
  \/ \E s \in OutId : ConnectOk(s)
  \/ \E s \in OutId : ConnectFail(s)
  \/ \E s \in OutId : HandshakeFlushed(s)
  \/ \E s \in OutId : SocketClosed(s)
  \/ \E n \in Neighbor, d \in Data : Send(n, d)

SendSpec == Init /\ [][NextSend]_vars

\* the lifecycle with send, the rejected sends included
SendCallSpec ==
  Init /\ [][NextSend \/ \E n \in Neighbor : SendRejects(n)]_vars

\* the same with a neighbor that may not be sent to
ForbidSpec ==
  InitSend /\ [][NextSend \/ \E n \in Neighbor : SendRejects(n)]_vars

\* the lifecycle without the reconnection ticks, with send sockets that raise
\* an error while they are destroyed
NextDestroy ==
  \/ \E n \in Neighbor : AddNeighbor(n)
  \/ \E n \in Neighbor : RemoveNeighbor(n)
  \/ RunStart
  \/ RunListening
  \/ RunListenFails
  \/ ShutdownStart
  \/ ShutdownClosed
  \/ \E s \in OutId : ConnectOk(s)
  \/ \E s \in OutId : ConnectFail(s)
  \/ \E s \in OutId : HandshakeFlushed(s)
  \/ \E s \in OutId : SocketClosed(s)
  \/ \E s \in OutId : SocketError(s)

DestroySpec == Init /\ [][NextDestroy]_vars

\* a transport whose host never calls shutdown() and whose listener may
\* close or fail
NextListen ==
  \/ \E n \in Neighbor : AddNeighbor(n)
  \/ RunStart
  \/ RunListening
  \/ RunListenFails
  \/ \E s \in OutId : ConnectOk(s)
  \/ \E s \in OutId : ConnectFail(s)
  \/ \E s \in OutId : HandshakeFlushed(s)
  \/ \E s \in OutId : SocketClosed(s)
  \/ ListenerClosed
  \/ ListenerError
  \/ ShutdownClosed

ListenSpec == Init /\ [][NextListen]_vars

\* a transport that is started and never shut down, whose neighbors are added
\* and never removed and whose send sockets never close
NextTrack ==
  \/ \E n \in Neighbor : AddNeighbor(n)
  \/ RunStart
  \/ RunListening
  \/ RunListenFails
  \/ \E c \in ChainId : TimerFires(c)
  \/ \E s \in OutId : ConnectOk(s)
  \/ \E s \in OutId : ConnectFail(s)
  \/ \E s \in OutId : HandshakeFlushed(s)

TrackSpec == Init /\ [][NextTrack]_vars

\* a transport that is started and receives connections from its neighbors'
\* transports
NextWire ==
  \/ \E n \in Neighbor : AddNeighbor(n)
  \/ RunStart
  \/ RunListening
  \/ RunListenFails
  \/ \E s \in OutId : ConnectOk(s)
  \/ \E s \in OutId : ConnectFail(s)
  \/ \E s \in OutId : HandshakeFlushed(s)
  \/ \E p \in Neighbor : InboundAlone(p)
  \/ \E s \in InId, d \in Data : PeerSend(s, d)
  \/ \E s \in InId, k \in 1..WireLen : FirstData(s, k)
  \/ \E s \in InId, k \in 1..WireLen : DataRead(s, k)
  \/ \E s \in InId : HandshakeTimeout(s)
  \/ \E s \in InId : InboundClosed(s)

WireSpec == Init /\ [][NextWire]_vars

\* the same with peers that write their bytes one at a time and end their
\* connections
NextFrame ==
  \/ \E n \in Neighbor : AddNeighbor(n)
  \/ RunStart
  \/ RunListening
  \/ RunListenFails
  \/ \E s \in OutId : ConnectOk(s)
  \/ \E s \in OutId : ConnectFail(s)
  \/ \E s \in OutId : HandshakeFlushed(s)
  \/ \E p \in Neighbor : InboundAlone(p)
  \/ \E s \in InId : PeerWrite(s)
  \/ \E s \in InId, k \in 1..WireLen : FirstData(s, k)
  \/ \E s \in InId, k \in 1..WireLen : DataRead(s, k)
  \/ \E s \in InId : PeerEnd(s)
  \/ \E s \in InId : InboundClosed(s)

FrameSpec == Init /\ [][NextFrame]_vars

\* the same for every configuration, with a handshake that arrives whole or
\* short of its last byte and packets that arrive in reads of at most a packet
NextAdmit ==
  \/ \E n \in Neighbor : AddNeighbor(n)
  \/ RunStart
  \/ RunListening
  \/ RunListenFails
  \/ \E s \in OutId : ConnectOk(s)
  \/ \E s \in OutId : ConnectFail(s)
  \/ \E s \in OutId : HandshakeFlushed(s)
  \/ \E p \in Neighbor : InboundAlone(p)
  \/ \E s \in InId, d \in Data : PeerSend(s, d)
  \/ \E s \in InId, k \in (HandshakeLen - 1)..HandshakeLen : FirstData(s, k)
  \/ \E s \in InId, k \in 1..PacketSize : DataRead(s, k)
  \/ \E s \in InId : HandshakeTimeout(s)
  \/ \E s \in InId : InboundClosed(s)

AdmitSpec == InitAny /\ [][NextAdmit]_vars

\* a started transport whose listener holds several connections at a time
NextDual ==
  \/ \E n \in Neighbor : AddNeighbor(n)
  \/ RunStart
  \/ RunListening
  \/ RunListenFails
  \/ \E s \in OutId : ConnectOk(s)
  \/ \E s \in OutId : ConnectFail(s)
  \/ \E s \in OutId : HandshakeFlushed(s)
  \/ \E p \in Neighbor : InboundConnect(p)
  \/ \E s \in InId, k \in (HandshakeLen - 1)..HandshakeLen : FirstData(s, k)
  \/ \E s \in InId : HandshakeTimeout(s)
  \/ \E s \in InId : InboundClosed(s)

DualSpec == Init /\ [][NextDual]_vars

\* a started transport that sends to its neighbors and receives from them
NextOrder ==
  \/ \E n \in Neighbor : AddNeighbor(n)
  \/ RunStart
  \/ RunListening
  \/ RunListenFails
  \/ \E s \in OutId : ConnectOk(s)
  \/ \E s \in OutId : ConnectFail(s)
  \/ \E s \in OutId : HandshakeFlushed(s)
  \/ \E n \in Neighbor, d \in Data : Send(n, d)
  \/ \E p \in Neighbor : InboundAlone(p)
  \/ \E s \in InId, d \in Data : PeerSend(s, d)
  \/ \E s \in InId, k \in (HandshakeLen - 1)..HandshakeLen : FirstData(s, k)
  \/ \E s \in InId, k \in 1..(2 * PacketSize) : DataRead(s, k)
  \/ \E s \in InId : InboundClosed(s)

OrderSpec == Init /\ [][NextOrder]_vars

\* the lifecycle without the reconnection ticks, together with the
\* connections of the neighbors' transports, whose handshake arrives whole or
\* short of its last byte
NextPeer ==
  \/ \E n \in Neighbor : AddNeighbor(n)
  \/ \E n \in Neighbor : RemoveNeighbor(n)
  \/ RunStart
  \/ RunListening
  \/ RunListenFails
  \/ ShutdownStart
  \/ ShutdownClosed
  \/ \E s \in OutId : ConnectOk(s)
  \/ \E s \in OutId : ConnectFail(s)
  \/ \E s \in OutId : HandshakeFlushed(s)
  \/ \E s \in OutId : SocketClosed(s)
  \/ \E p \in Neighbor : InboundAlone(p)
  \/ \E s \in InId, k \in (HandshakeLen - 1)..HandshakeLen : FirstData(s, k)
  \/ \E s \in InId : HandshakeTimeout(s)
  \/ \E s \in InId : InboundClosed(s)

\* the runtime's part: a listen and a connect complete, write callbacks are
\* called, destroyed sockets emit "close", the handshake timer fires, and the
\* listener emits "close" once its connections have ended.  What the peers
\* do with their connections is up to them.
PeerFairness ==
  /\ WF_vars(RunListening \/ RunListenFails)
  /\ WF_vars(ShutdownClosed)
  /\ \A s \in OutId : WF_vars(ConnectOk(s) \/ ConnectFail(s))
  /\ \A s \in OutId : WF_vars(HandshakeFlushed(s))
  /\ \A s \in OutId : WF_vars(osock[s].st = "closing" /\ SocketClosed(s))
  /\ \A s \in InId : WF_vars(HandshakeTimeout(s))
  /\ \A s \in InId : WF_vars(isock[s].st \in {"closing", "dropped"} /\ InboundClosed(s))

PeerSpec == Init /\ [][NextPeer]_vars /\ PeerFairness

\* a transport that is started and never shut down, whose neighbors are added
\* and never removed, and whose neighbors' listeners may come up for good
NextUp ==
  \/ \E n \in Neighbor : AddNeighbor(n)
  \/ RunStart
  \/ RunListening
  \/ RunListenFails
  \/ \E c \in ChainId : TimerFires(c)
  \/ \E s \in OutId : ConnectOk(s)
  \/ \E s \in OutId : ConnectFail(s)
  \/ \E s \in OutId : HandshakeFlushed(s)
  \/ \E s \in OutId : SocketClosed(s)
  \/ \E n \in Neighbor : PeerUp(n)

\* timers fire, connects complete and write callbacks are called
Fairness ==
  /\ \A c \in ChainId : WF_vars(TimerFires(c))
  /\ \A s \in OutId : WF_vars(ConnectOk(s) \/ ConnectFail(s))
  /\ \A s \in OutId : WF_vars(HandshakeFlushed(s))

FairSpec == Init /\ [][NextUp]_vars /\ Fairness

----------------------------------------------------------------------------
(* Properties *)

InTable(n) == n \in SeqToSet(neighbors)
SendKeys == {n \in AllNb : sendSockets[n] # None}
LiveTo(n) == {s \in OutId : osock[s].nb = n /\ Live(osock[s])}
Resolved(op) == ret.op = op /\ ret.res = "ok"

\* C1: isRunning is false initially; a step changes it only by a run() that
\* resolves (to true) or a shutdown() that resolves (to false), and each of
\* those leaves it true, respectively false; no rejected call and no event
\* changes it.
C1_IsRunningToggles ==
  /\ isRunning = FALSE
  /\ [][/\ isRunning' # isRunning =>
              \/ ret'.op = "run" /\ ret'.res = "ok" /\ isRunning'
              \/ ret'.op = "shutdown" /\ ret'.res = "ok" /\ ~isRunning'
        /\ (ret'.op = "run" /\ ret'.res = "ok") => isRunning'
        /\ (ret'.op = "shutdown" /\ ret'.res = "ok") => ~isRunning'
        /\ ret'.res \notin {"ok", "connected", "connectFailed", "notRunning", "-"}
              => isRunning' = isRunning]_vars

\* a shutdown() of a transport that has neighbors has resolved
C1_Witness ==
  /\ Resolved("shutdown")
  /\ ~isRunning
  /\ neighbors # <<>>

\* C2: every neighbor has at most one live outbound connection.
C2_AtMostOneLive == \A n \in Neighbor : Cardinality(LiveTo(n)) <= 1

\* C3: needsReconnect is a subset of the neighbor table and disjoint from the
\* keys of sendSockets.
C3_NeedsReconnectTracked ==
  \A n \in needsReconnect : InTable(n) /\ ~isConnectedTo(n)

\* C4: every neighbor that has a send socket is in the neighbor table.
C4_SendSocketInTable == \A n \in SendKeys : InTable(n)

\* C5: while a shutdown() is in progress no reconnection tick starts a connect,
\* and from a shutdown() that resolved until the next run() no neighbor
\* becomes connected.
C5_ReconnectionStops ==
  [][/\ sdPc # "idle" =>
          \A s \in OutId :
            (osock'[s].st = "connecting" /\ osock'[s].owner.kind = "tick")
              => osock[s].st = "connecting"
     /\ (~isRunning /\ runPc = "idle" /\ ~isRunning' /\ runPc' = "idle") =>
          \A n \in Neighbor : sendSockets'[n] # None => sendSockets[n] # None]_vars

\* C6: when shutdown() resolves no neighbor has a send socket.
C6_NoSendSocketAfterShutdown ==
  Resolved("shutdown") => \A n \in Neighbor : ~isConnectedTo(n)

\* the connect to n has failed and n waits for the next tick of the loop
AwaitsReconnect(n) ==
  /\ n \in needsReconnect
  /\ \A s \in OutId : osock[s].nb # n

\* C7: on a running transport, a neighbor of the table whose connect has
\* failed and whose listener is up for good is eventually connected, unless
\* the transport stops running or the neighbor leaves the table.
C7_ReconnectionLiveness ==
  \A n \in Neighbor :
    (isRunning /\ InTable(n) /\ AwaitsReconnect(n) /\ reachable[n])
      ~> (isConnectedTo(n) \/ ~isRunning \/ ~InTable(n))

\* a neighbor whose connect failed while its listener was down is connected
\* by the loop after the listener came up
C7_Witness ==
  \E n \in Neighbor :
    /\ isRunning /\ InTable(n) /\ reachable[n] /\ isConnectedTo(n)
    /\ osock[sendSockets[n]].owner.kind = "tick"

\* C8: when addNeighbor(n) resolves on a running transport after its connect
\* failed, n is in the neighbor table and in needsReconnect and has no send
\* socket.
C8_AddNeighborAfterFailedConnect ==
  \A n \in Neighbor :
    ret = Ret("addNeighbor", n, "connectFailed") =>
      InTable(n) /\ n \in needsReconnect /\ ~isConnectedTo(n)

\* the data of the receive events of inbound socket record r, in order
Delivered(r) == [i \in 1..Len(r.rcvd) |-> r.rcvd[i].data]

\* C9: on a connection from a peer that is in the table and may be received
\* from, the receive events carry the peer's record and the data the peer
\* sent, in order and without duplicates, and once every byte the peer wrote
\* has been read there is one receive event per send.
C9_RoundTrip ==
  \A s \in InId :
    LET r == isock[s] IN
      (r.st # "free" /\ InTable(r.peer) /\ GatewayCanReceiveFrom(r.peer)) =>
        /\ Len(r.rcvd) <= Len(r.sent)
        /\ Delivered(r) = Take(r.sent, Len(r.rcvd))
        /\ \A i \in 1..Len(r.rcvd) : r.rcvd[i].nb = r.peer
        /\ r.wire = <<>> => Len(r.rcvd) = Len(r.sent)

\* C11: an inbound connection whose first read is not 10 digits does not stay
\* open: no open socket of the listener has such a first read, none is
\* registered as a receive socket and none has a receive event.
C11_InvalidHandshakeClosed ==
  \A s \in InId :
    LET r == isock[s] IN
      (r.hs # <<>> /\ ~ValidPort(r.hs)) =>
        /\ r.st = "free"
        /\ \A n \in Neighbor : receiveSockets[n] # s
        /\ r.rcvd = <<>>

\* C12: a shutdown() that has been called resolves, and the transport is
\* idle then.
C12_ShutdownResolves ==
  (sdPc # "idle") ~> (sdPc = "idle" /\ ~isRunning)

\* the connections that peer p's transport holds to this transport's listener
ConnectionsOf(p) == {s \in InId : isock[s].st # "free" /\ isock[s].peer = p}

\* C13: once shutdown() has been called, a neighbor's transport that holds a
\* connection registered here as its receive socket loses that connection.
C13_PeerSeesTeardown ==
  \A s \in InId :
    (sdPc # "idle" /\ isock[s].st = "recv") ~> (isock[s].st = "free")

\* C14: from the moment shutdown() has resolved until run() is called again
\* the listener is closed: no connection to it exists, none can be made and
\* no receive socket is registered.
C14_NoInboundAfterShutdown ==
  (~isRunning /\ runPc = "idle") =>
    /\ server = "closed"
    /\ \A s \in InId : isock[s].st = "free"
    /\ \A n \in Neighbor : receiveSockets[n] = None

\* shutdown() has resolved, the listener is closed and a neighbor is still in the table
C14_Witness ==
  /\ Resolved("shutdown")
  /\ server = "closed"
  /\ \E n \in Neighbor : InTable(n)

\* C15: when removeNeighbor(n) resolves, n is in none of the table,
\* needsReconnect, the send sockets and the receive sockets.
C15_RemovedEverywhere ==
  \A n \in Neighbor :
    ret = Ret("removeNeighbor", n, "ok") =>
      /\ ~InTable(n)
      /\ n \notin needsReconnect
      /\ ~isConnectedTo(n)
      /\ receiveSockets[n] = None

\* removeNeighbor(n) is waiting for n's send socket to close
Removing(n) == \E s \in OutId : osock[s].nb = n /\ "rm" \in osock[s].dw

\* C16: when removeNeighbor(n) has resolved, n has no send socket; and when
\* it is called for a connected neighbor whose transport holds a connection
\* to this one, that connection is closed eventually.
C16_RemoveDisconnectsBoth ==
  \A n \in Neighbor :
    /\ [](ret = Ret("removeNeighbor", n, "ok") => ~isConnectedTo(n))
    /\ (Removing(n) /\ ConnectionsOf(n) # {}) ~> (ConnectionsOf(n) = {})

RECURSIVE Count(_, _)
\* how often x occurs in the sequence q
Count(q, x) ==
  IF q = <<>> THEN 0
  ELSE (IF Head(q) = x THEN 1 ELSE 0) + Count(Tail(q), x)

\* C17: a neighbor created for an unknown connection is in the table once
\* and announced by exactly one "neighbor" event, and every connection bound
\* to it comes from a transport whose host and listening port are its host
\* and port.
C17_UnknownNeighborAdmitted ==
  /\ \A u \in Synth :
       /\ Count(neighbors, u) <= 1
       /\ Count(emitted, u) = Count(neighbors, u)
  /\ \A s \in InId :
       (isock[s].st = "recv" /\ isock[s].nb \in Synth) =>
         /\ NbHost(isock[s].nb) = NbHost(isock[s].peer)
         /\ NbPort(isock[s].nb) = NbPort(isock[s].peer)

\* the address of connection s matches no neighbor of the table
Unknown(s) == FirstMatch(neighbors, SocketAddress(isock[s].peer)) = NoNb

\* C18: with receiveUnknownNeighbor off, what happens first on a connection
\* from an address that matches no neighbor is that it is destroyed, and the
\* table, both socket maps and the "neighbor" events stay as they are.
C18_UnknownDestroyed ==
  [][\A s \in InId :
       (/\ isock[s].st = "hsWait"
        /\ isock'[s].st # "hsWait"
        /\ ~params.receiveUnknownNeighbor
        /\ Unknown(s))
       => /\ isock'[s].st \in {"free", "dropped"}
          /\ UNCHANGED <<neighbors, sendSockets, receiveSockets, emitted>>]_vars

\* C19: a neighbor that may not be received from has no receive socket, no
\* connection is bound to it, and no receive event names it.
C19_ReceiveForbidden ==
  /\ \A n \in AllNb : ~GatewayCanReceiveFrom(n) => receiveSockets[n] = None
  /\ \A s \in InId :
       /\ isock[s].st \in {"recv", "closing"} => GatewayCanReceiveFrom(isock[s].nb)
       /\ \A i \in 1..Len(isock[s].rcvd) : GatewayCanReceiveFrom(isock[s].rcvd[i].nb)

\* a connection identified as a neighbor that may not be received from has
\* been destroyed
C19_Witness ==
  \E s \in InId :
    /\ isock[s].st = "dropped"
    /\ isock[s].nb # NoNb
    /\ ~GatewayCanReceiveFrom(isock[s].nb)

\* C20: a send() to a neighbor that may be sent to and has no send socket
\* rejects with NotConnected and changes nothing: no socket is written to
\* and every collection and the lifecycle stay as they are.
C20_SendNotConnected ==
  [][\A n \in Neighbor :
       (ret'.op = "send" /\ ret'.nb = n /\ GatewayCanSendTo(n) /\ sendSockets[n] = None)
       => /\ ret'.res = "NotConnected"
          /\ UNCHANGED <<isRunning, server, handlers, runPc, sdPc, neighbors,
                         needsReconnect, sendSockets, osock, chain, timerRef,
                         receiveSockets, isock, emitted>>]_vars

\* a send() to a neighbor of the table whose connect failed was rejected
C20_Witness ==
  \E n \in Neighbor :
    /\ ret = Ret("send", n, "NotConnected")
    /\ InTable(n)
    /\ n \in needsReconnect

\* C21: a send() to a neighbor that may not be sent to rejects with
\* SendForbidden and writes nothing, whether or not the neighbor has a send
\* socket.
C21_SendForbidden ==
  [][\A n \in Neighbor :
       (ret'.op = "send" /\ ret'.nb = n /\ ~GatewayCanSendTo(n))
       => /\ ret'.res = "SendForbidden"
          /\ UNCHANGED <<osock, sendSockets, isock>>]_vars

\* a send() to a connected neighbor that may not be sent to was rejected
C21_Witness ==
  \E n \in Neighbor :
    /\ ret = Ret("send", n, "SendForbidden")
    /\ sendSockets[n] # None
    /\ osock[sendSockets[n]].st = "open"

\* C22: run() on a running transport rejects with AlreadyRunning and changes
\* nothing: the listener, the handlers, the sockets, the reconnection loops,
\* the table, the socket maps and needsReconnect stay as they are.
C22_RunRejected ==
  [][(isRunning /\ ret'.op = "run")
       => /\ ret'.res = "AlreadyRunning"
          /\ UNCHANGED <<isRunning, server, handlers, runPc, sdPc, neighbors,
                         needsReconnect, sendSockets, osock, chain, timerRef,
                         receiveSockets, isock, emitted>>]_vars

\* run() was rejected on a running transport that has a neighbor
C22_Witness ==
  /\ ret = Ret("run", NoNb, "AlreadyRunning")
  /\ isRunning
  /\ neighbors # <<>>

\* C23: shutdown() on a transport that is not running rejects with NotRunning
\* and changes nothing.
C23_ShutdownRejected ==
  [][(~isRunning /\ ret'.op = "shutdown")
       => /\ ret'.res = "NotRunning"
          /\ UNCHANGED <<isRunning, server, handlers, runPc, sdPc, neighbors,
                         needsReconnect, sendSockets, osock, chain, timerRef,
                         receiveSockets, isock, emitted>>]_vars

\* shutdown() was rejected while a run() was connecting to the neighbors
C23_Witness ==
  /\ ret = Ret("shutdown", NoNb, "NotRunning")
  /\ ~isRunning
  /\ runPc = "connecting"

\* C24: addNeighbor(n) for n in the table rejects with AlreadyExists and
\* changes nothing, also while a first addNeighbor(n) awaits its connect: a
\* call that settles at once on a neighbor of the table is a rejection that
\* leaves every collection as it is, addNeighbor starts a connect only for a
\* neighbor that was not in the table, and the table never holds a neighbor
\* twice.
C24_AddRejected ==
  [][/\ (/\ ret'.op = "addNeighbor"
         /\ ret'.res \notin {"connected", "connectFailed"}
         /\ InTable(ret'.nb))
        => /\ ret'.res = "AlreadyExists"
           /\ UNCHANGED <<isRunning, server, handlers, runPc, sdPc, neighbors,
                          needsReconnect, sendSockets, osock, chain, timerRef,
                          receiveSockets, isock, emitted>>
     /\ \A s \in OutId :
          (osock[s].st = "free" /\ osock'[s].st = "connecting" /\ osock'[s].owner = ByAdd)
          => ~InTable(osock'[s].nb)
     /\ \A n \in AllNb : Count(neighbors', n) <= 1]_vars

\* addNeighbor(n) was rejected while the first addNeighbor(n) awaited its connect
C24_Witness ==
  \E n \in Neighbor :
    /\ ret = Ret("addNeighbor", n, "AlreadyExists")
    /\ \E s \in OutId : osock[s].nb = n /\ osock[s].owner = ByAdd /\ Pending(osock[s])

\* C25: removeNeighbor(n) for n not in the table (and with no earlier
\* removeNeighbor(n) still awaiting its disconnect) rejects with NotFound,
\* destroys no socket and changes nothing.
C25_RemoveRejected ==
  [][\A n \in Neighbor :
       (ret'.op = "removeNeighbor" /\ ret'.nb = n /\ ~InTable(n) /\ ~Removing(n))
       => /\ ret'.res = "NotFound"
          /\ UNCHANGED <<isRunning, server, handlers, runPc, sdPc, neighbors,
                         needsReconnect, sendSockets, osock, chain, timerRef,
                         receiveSockets, isock, emitted>>]_vars

\* removeNeighbor(n) was rejected on a running transport that has another neighbor
C25_Witness ==
  \E n \in Neighbor :
    /\ ret = Ret("removeNeighbor", n, "NotFound")
    /\ isRunning
    /\ neighbors # <<>>

\* C26: isConnectedTo(n) holds exactly while n has an open outbound connection:
\* an entry of sendSockets names a socket to that neighbor that is open (or
\* destroyed and about to emit its "close"), never a closed one, and every
\* open outbound connection to n has n's entry, so the close of one
\* connection does not take away the entry of another.
C26_ConnectedIffLive ==
  \A n \in Neighbor :
    /\ isConnectedTo(n) =>
         /\ osock[sendSockets[n]].nb = n
         /\ osock[sendSockets[n]].st \in {"open", "closing"}
    /\ \A s \in OutId : (Live(osock[s]) /\ osock[s].nb = n) => isConnectedTo(n)

\* C27 as stated: at the moment addNeighbor(n) resolves on a running
\* transport, the outcome of its connect attempt is in neither needsReconnect
\* nor sendSockets.
C27_ResolvesBeforeOutcome ==
  \A n \in Neighbor :
    (ret.op = "addNeighbor" /\ ret.nb = n /\ ret.res \in {"connected", "connectFailed"})
      => n \notin needsReconnect /\ ~isConnectedTo(n)

\* C27, amended: addNeighbor(n) on a running transport resolves only after
\* its connect attempt has settled and been recorded.  It does not resolve in
\* the step of the call, nor in the step of the socket's "connect" event,
\* which enters the socket in sendSockets; when it resolves after a failure n
\* is in needsReconnect, and when it resolves after a success the socket of
\* the attempt had connected, and been entered, in an earlier step.
C27_ResolvesAfterOutcome ==
  [][/\ \A n \in Neighbor :
          /\ (isRunning /\ ~InTable(n) /\ n \in SeqToSet(neighbors'))
                => ret'.op # "addNeighbor"
          /\ ret' = Ret("addNeighbor", n, "connectFailed") => n \in needsReconnect'
          /\ ret' = Ret("addNeighbor", n, "connected") =>
                \E s \in OutId : /\ osock[s].nb = n
                                 /\ osock[s].owner = ByAdd
                                 /\ osock[s].awaitHs
                                 /\ osock[s].st # "connecting"
     /\ \A s \in OutId :
          (osock[s].st = "connecting" /\ osock'[s].st = "open")
            => /\ sendSockets'[osock[s].nb] = s
               /\ ret'.op # "addNeighbor"]_vars

\* addNeighbor(n) has resolved on a running transport and n is connected
C27_Witness ==
  \E n \in Neighbor :
    /\ ret = Ret("addNeighbor", n, "connected")
    /\ isRunning
    /\ isConnectedTo(n)

\* the reconnection loops that have a timer pending, and those whose tick is
\* in flight
Armed(ch) == {c \in ChainId : ch[c] = "armed"}
InFlight(ch) == {c \in ChainId : ch[c] = "tick"}

\* the connects loop c's tick starts in this step
StartedBy(c) == {s \in OutId : osock[s].st = "free" /\ osock'[s].owner = ByTick(c)}

\* C28: at most one reconnection timer is pending and at most one tick is in
\* flight; a tick starts one connect for each neighbor of needsReconnect and
\* for no other; a connect of a tick that succeeds takes its neighbor out of
\* needsReconnect and one that fails leaves the set as it is; and the next
\* timer is armed only when no connect of the tick is pending.
C28_TickAfterDrain ==
  [][/\ Cardinality(Armed(chain')) <= 1
     /\ Cardinality(InFlight(chain')) <= 1
     /\ \A c \in ChainId :
          /\ (chain[c] = "armed" /\ chain'[c] = "tick") =>
                /\ {osock'[s].nb : s \in StartedBy(c)} = needsReconnect
                /\ Cardinality(StartedBy(c)) = Cardinality(needsReconnect)
                /\ \A s \in StartedBy(c) : osock'[s].st = "connecting"
          /\ (chain[c] = "tick" /\ chain'[c] = "armed") =>
                ~\E s \in OutId : osock'[s].owner = ByTick(c) /\ Pending(osock'[s])
     /\ \A s \in OutId :
          (osock[s].owner.kind = "tick" /\ Pending(osock[s]) /\ ~Pending(osock'[s])) =>
            IF osock[s].awaitHs
              THEN osock[s].nb \notin needsReconnect'
              ELSE needsReconnect' = needsReconnect]_vars

\* server.listening: the listener is bound and accepts connections
Bound == server = "listening"

\* a reconnection loop is alive: its timer is pending or its tick is in flight
LoopArmed == \E c \in ChainId : chain[c] # "off"

\* C29: the transport is running exactly when the listener is bound and the
\* reconnection loop is armed, and isRunning changes only when a run()
\* resolves (to true) and when a shutdown() resolves (to false).
C29_RunningIffBoundAndArmed ==
  [][/\ isRunning' <=> (Bound' /\ LoopArmed')
     /\ isRunning' # isRunning =>
          \/ ret' = Ret("run", NoNb, "ok") /\ isRunning'
          \/ ret' = Ret("shutdown", NoNb, "ok") /\ ~isRunning']_vars

\* C30: a first read that carries the 10 handshake digits followed by packet
\* bytes still identifies the connection: with the peer's address matching a
\* neighbor of the table that may be received from, the socket is registered
\* as that neighbor's receive socket and only the bytes after the handshake
\* in that read are lost.
C30_CoalescedHandshake ==
  [][\A s \in InId :
       LET r == isock[s]
           n == FirstMatch(neighbors, SocketAddress(r.peer))
       IN (/\ r.st = "hsWait"
           /\ isock'[s].hs # <<>>
           /\ Len(isock'[s].hs) > HandshakeLen
           /\ ValidPort(Take(isock'[s].hs, HandshakeLen))
           /\ n # NoNb
           /\ GatewayCanReceiveFrom(n))
          => /\ isock'[s].st = "recv"
             /\ isock'[s].nb = n
             /\ receiveSockets'[n] = s
             /\ isock'[s].wire = Drop(r.wire, Len(isock'[s].hs))]_vars

\* C31: an inbound connection whose handshake window ends before a byte is
\* read is destroyed, with no receive socket registered, no neighbor added and
\* no "neighbor", "error" or "receive" event; and the handshake timer is
\* pending only on a connection that is still waiting for its first read.
C31_HandshakeTimeout ==
  [][\A s \in InId :
       /\ (isock[s].timer /\ ~isock'[s].timer /\ isock'[s].hs = <<>>)
            => /\ isock'[s].st \in {"dropped", "free"}
               /\ isock'[s].rcvd = <<>>
               /\ UNCHANGED <<receiveSockets, neighbors, emitted, errors>>
       /\ isock'[s].timer
            => /\ isock'[s].st = "hsWait"
               /\ isock'[s].hs = <<>>
               /\ \A n \in AllNb : receiveSockets'[n] # s]_vars

\* the timer has destroyed a connection whose peer had sent its handshake,
\* which was never read
C31_Witness ==
  \E s \in InId :
    /\ isock[s].st = "dropped"
    /\ isock[s].hs = <<>>
    /\ isock[s].nb = NoNb
    /\ \A n \in AllNb : receiveSockets[n] = None

\* the post-handshake bytes of connection r that have been read
ReadSoFar(r) == Take(r.out, Len(r.out) - Len(r.wire))

\* C32: however the bytes that follow the handshake are split into reads, a
\* registered connection has one receive event per full block of the bytes
\* read so far, the k-th made of the k-th block of the stream, and the bytes
\* of a trailing partial block are buffered and in no event.
C32_Framing ==
  \A s \in InId :
    LET r == isock[s]
        read == ReadSoFar(r)
        full == Len(read) \div PacketSize
    IN r.st \in {"recv", "ended"} =>
         /\ Len(r.rcvd) = full
         /\ \A k \in 0..(Len(r.rcvd) - 1) :
              r.rcvd[k + 1].block = SubSeq(read, k * PacketSize + 1, (k + 1) * PacketSize)
         /\ r.st = "recv" => r.buf = Drop(read, full * PacketSize)

\* the packets written to outbound socket r after its handshake
Queued(r) == IF r.wr = <<>> THEN <<>> ELSE Tail(r.wr)

\* C33: the packets of the sends to one neighbor are written to its send
\* socket in call order (a send appends its packet to what the socket has
\* been given, and nothing written is taken back or moved), and the receive
\* events of a registered connection carry the peer's sends in the order the
\* peer made them.
C33_PerNeighborOrder ==
  [][/\ \A s \in OutId :
          (osock[s].st = "open" /\ osock[s].wr # <<>> /\ osock'[s].st = "open")
            => /\ Len(osock'[s].wr) \in {Len(osock[s].wr), Len(osock[s].wr) + 1}
               /\ Take(osock'[s].wr, Len(osock[s].wr)) = osock[s].wr
               /\ Len(osock'[s].wr) > Len(osock[s].wr)
                    => /\ ret'.op = "send"
                       /\ sendSockets[ret'.nb] = s
     /\ \A s \in InId :
          isock'[s].st = "recv"
            => /\ Delivered(isock'[s]) = Take(isock'[s].sent, Len(isock'[s].rcvd))
               /\ isock[s].st = "recv"
                    => Take(isock'[s].rcvd, Len(isock[s].rcvd)) = isock[s].rcvd]_vars

\* two different packets were sent to one neighbor on one socket, and a peer's
\* two different packets were received on one connection
C33_Witness ==
  /\ \E s \in OutId : Len(Queued(osock[s])) = 2 /\ Queued(osock[s])[1] # Queued(osock[s])[2]
  /\ \E s \in InId : /\ isock[s].st = "recv"
                      /\ Len(isock[s].rcvd) = 2
                      /\ isock[s].rcvd[1].data # isock[s].rcvd[2].data

\* the open connections whose data handler emits receive events naming n
ReceivingFrom(n) == {s \in InId : isock[s].st = "recv" /\ isock[s].nb = n}

\* C34: a neighbor has at most one open connection that is registered or
\* emits receive events, and it has a receive-socket entry exactly while it
\* has such a connection, the entry being that connection.
C34_OneReceiveSocket ==
  \A n \in AllNb :
    /\ Cardinality(ReceivingFrom(n)) <= 1
    /\ receiveSockets[n] # None <=> ReceivingFrom(n) # {}
    /\ receiveSockets[n] # None => receiveSockets[n] \in ReceivingFrom(n)

\* C35: when the _disconnect calls awaiting a send socket are released, by its
\* close event or by an error event, the neighbor's send-socket entry is
\* gone, a removeNeighbor among them resolves with the neighbor out of the
\* table, and a shutdown whose last disconnect it was goes on to close the
\* listener; no removeNeighbor or shutdown ever rejects with a socket error.
C35_DisconnectNeverThrows ==
  [][/\ \A s \in OutId :
          (osock[s].dw # {} /\ osock'[s].dw = {})
            => /\ sendSockets'[osock[s].nb] = None
               /\ "rm" \in osock[s].dw
                    => /\ ret' = Ret("removeNeighbor", osock[s].nb, "ok")
                       /\ ~InTableOf(neighbors', osock[s].nb)
               /\ ("sd" \in osock[s].dw /\ \A t \in OutId : "sd" \notin osock'[t].dw)
                    => sdPc' = "closing"
     /\ ret'.res # "SocketError"]_vars

\* a send socket raised an error while removeNeighbor was destroying it, and
\* removeNeighbor has resolved
C35_Witness ==
  /\ errors > 0
  /\ ret.op = "removeNeighbor"
  /\ ret.res = "ok"
  /\ \E s \in OutId : osock[s].st = "closing" /\ osock[s].dw = {} /\ osock[s].nb = ret.nb

\* a _connect to n has been started and has not settled
Connecting(os, n) == \E t \in OutId : os[t].nb = n /\ Pending(os[t])

\* n is in the table of a running transport, without send socket, not due
\* for reconnection and with no connect under way
Abandoned(n) ==
  /\ isRunning
  /\ sdPc = "idle"
  /\ InTable(n)
  /\ ~Removing(n)
  /\ sendSockets[n] = None
  /\ n \notin needsReconnect
  /\ ~Connecting(osock, n)

\* C36: when the send socket of a neighbor of a running transport closes
\* without having been destroyed by the transport, the neighbor is left
\* without entry, outside needsReconnect and with no connect under way; and
\* a neighbor in that condition stays in it, no connect to it being started,
\* until it is removed or shutdown() is called.
C36_CloseIsTerminal ==
  [][\A n \in Neighbor :
       /\ \A s \in OutId :
            (/\ isRunning /\ sdPc = "idle" /\ InTable(n) /\ ~Removing(n)
             /\ sendSockets[n] = s
             /\ osock[s].st = "open" /\ ~osock[s].awaitHs
             /\ osock'[s].st \notin {"open", "closing"})
            => /\ sendSockets'[n] = None
               /\ needsReconnect' = needsReconnect
               /\ Abandoned(n)'
       /\ Abandoned(n)
            => \/ Abandoned(n)'
               \/ ~InTable(n)'
               \/ sdPc' # "idle"]_vars

\* C37: on a transport whose shutdown() is never called, a step in which the
\* listener of the running transport stops listening emits an "error" event
\* and leaves the transport's state as it is; and an "error" event of the
\* listener changes nothing but the count of emitted errors.
C37_ListenerCloseSurfaced ==
  [][/\ (isRunning /\ server = "listening" /\ server' # "listening")
          => /\ errors' = errors + 1
             /\ UNCHANGED <<isRunning, handlers, sdPc, neighbors, needsReconnect,
                            sendSockets, osock, chain, timerRef>>
     /\ errors' # errors
          => /\ errors' = errors + 1
             /\ UNCHANGED <<isRunning, server, handlers, sdPc, neighbors,
                            needsReconnect, sendSockets, osock, chain, timerRef>>]_vars

\* C38: a connection registered for a neighbor comes from that neighbor's
\* host, its receive events carry the host it comes from, and no connection
\* with a valid handshake is destroyed while a neighbor of the table that may
\* be received from has the host it comes from.
C38_BoundByRemoteAddress ==
  \A s \in InId :
    LET r == isock[s] IN
      /\ r.st = "recv"
           => /\ NbHost(r.nb) = NbHost(r.peer)
              /\ \A i \in 1..Len(r.rcvd) : r.rcvd[i].address = NbHost(r.peer)
      /\ (r.st = "dropped" /\ ValidPort(r.hs))
           => ~\E n \in Neighbor :
                 /\ InTable(n)
                 /\ GatewayCanReceiveFrom(n)
                 /\ NbHost(n) = NbHost(r.peer)

\* no _connect call is under way
Quiescent == \A s \in OutId : ~Pending(osock[s])

\* C39: on a running transport whose send sockets have not closed, whenever
\* no connect is under way every neighbor of the table has a send socket or
\* is in needsReconnect.
C39_EveryNeighborTracked ==
  (isRunning /\ Quiescent) =>
    \A n \in Neighbor : InTable(n) => (isConnectedTo(n) \/ n \in needsReconnect)

\* C40: a run() whose listener fails to bind rejects with the listen error
\* and leaves an idle transport: isRunning is false, the listener is closed
\* and has no connection handler, no connect has been started, no timer
\* armed, needsReconnect and the table are as they were, and run() may be
\* called again.
C40_FailedBindStaysIdle ==
  [][/\ (runPc = "binding" /\ server' = "closed")
          => ret' = Ret("run", NoNb, "ListenFailed")
     /\ ret' = Ret("run", NoNb, "ListenFailed")
          => /\ runPc = "binding"
             /\ ~isRunning'
             /\ ~handlers'
             /\ server' = "closed"
             /\ runPc' = "idle"
             /\ UNCHANGED <<osock, sendSockets, chain, timerRef, needsReconnect,
                            neighbors>>]_vars

\* run() has rejected with the listen error on a transport that has a
\* neighbor to connect to
C40_Witness ==
  /\ ret = Ret("run", NoNb, "ListenFailed")
  /\ neighbors # <<>>
  /\ ~isRunning
  /\ runPc = "idle"

\* C10: everything written to an outbound connection starts with one write
\* of 10 digits that spell the configured port, left-padded with zeros; that
\* write is there as soon as the connection is registered as a send socket,
\* and every later write is an application packet, never the handshake again.
C10_HandshakeDiscipline ==
  /\ \A s \in OutId :
       LET w == osock[s].wr IN
         /\ osock[s].st \in {"open", "closing", "closed"} => w # <<>>
         /\ w # <<>> =>
              /\ Len(w[1]) = HandshakeLen
              /\ \A i \in 1..Len(w[1]) : IsDigit(w[1][i])
              /\ ToNumber(w[1]) = Port
              /\ \A i \in 2..Len(w) : \E d \in Data : w[i] = Pack(d)
  /\ \A n \in Neighbor :
       isConnectedTo(n) => osock[sendSockets[n]].wr # <<>>

\* send was called on a connection whose handshake write has not completed
C10_Witness ==
  \E s \in OutId : osock[s].awaitHs /\ Len(osock[s].wr) >= 2

============================================================================
